---- MODULE Spec2Model ----
(***************************************************************************)
(* State-machine model of wamd's MultiDeviceWhatsAppClientProtocol and its *)
(* factory (src/wamd/protocol.py) together with the `failure` node handler *)
(* (src/wamd/handlers/failure.py).                                          *)
(*                                                                         *)
(* Websocket messages are sequences of naturals ("bytes").  Every handler  *)
(* of the protocol is a pure operator on a record `w` holding all fields   *)
(* of the connection, its factory and the observable logs; an action       *)
(* applies one handler to the current state and stores the result.         *)
(***************************************************************************)
EXTENDS Integers, Sequences, FiniteSets, TLC

VARIABLES
    ws,                  \* transport: "connecting" | "handshaking" | "open" | "closed" | "lost" | "failed"
    closeSent,           \* sendClose(code=1000) was called on the open websocket
    authState,           \* protocol.authState: "None" | "new" (no `me`) | "me"
    serverHelloDeferred, \* protocol._serverHelloDeferred is not None
    sendCipher,          \* protocol._sendCipher: NoCipher or its nonce
    recvCipher,          \* protocol._recvCipher: NoCipher or its nonce
    failure,             \* protocol._failure
    pendingRequest,      \* protocol._pendingRequest: node id -> index into deferreds
    deferreds,           \* every Deferred created by request(), in creation order
    keepAliveLoop,       \* protocol._keepAliveLoop: 0 (None) or index into loops
    loops,               \* every LoopingCall created: "scheduled" | "waiting" | "stopped" | "failed"
    sent,                \* messages written to the websocket, in order
    events,              \* events fired by the protocol, in order
    dispatched,          \* nodes handed to messageNodeReceived by the latest onMessage, in order
    messageTagCounter,   \* protocol._messageTagCounter
    messageTagPrefix,    \* protocol._messageTagPrefix: 0 (None) or a prefix
    factoryAuthState,    \* factory._authState
    readyDeferred,       \* factory.readyDeferred: "pending" | "None"
    readyResult,         \* how readyDeferred was fired: "unset" | "callback" | "errback"
    authDeferred,        \* factory.authDeferred: "pending" | "None"
    authResult,          \* how authDeferred was fired: "unset" | "callback" | a failure type
    connNo,              \* number of protocols built by the factory so far
    sealed,              \* frames sealed (encrypt_with_ad calls) on this connection
    opened,              \* frames opened (decrypt_with_ad returned) on this connection
    helloRest            \* bytes that followed the frame of the latest ServerHello in its message

vars == <<ws, closeSent, authState, serverHelloDeferred, sendCipher, recvCipher,
          failure, pendingRequest, deferreds, keepAliveLoop, loops, sent, events,
          dispatched, messageTagCounter, messageTagPrefix, factoryAuthState,
          readyDeferred, readyResult, authDeferred, authResult, connNo,
          sealed, opened, helloRest>>

----------------------------------------------------------------------------
\* Bounds of the model.

\* frames concatenated in one inbound websocket message
MaxFrames == 2
\* seal / open operations per cipher on one connection
MaxNonce == 2
\* messages written to the websocket on one connection
MaxSent == 3
\* Deferreds created by request() on one connection
MaxRequests == 1
\* LoopingCalls created on one connection
MaxLoops == 1
\* protocols built by the factory
MaxConn == 2
\* the wall time int(time.time()) read by the certificate check
Now == 5
\* handshakes completed on one connection when authenticate() is repeated
MaxHandshakes == 2
\* messages written to the websocket on one connection with repeated handshakes
MaxWritten == 5

----------------------------------------------------------------------------
\* Byte-level helpers.

NoCipher == -1

\* Constants.FLAG_COMPRESSED as tested by onMessage
FLAG_COMPRESSED == 2

\* Constants.PROLOGUE, prepended to the ClientHello
PROLOGUE == <<87, 65>>

RECURSIVE Pow256(_)
Pow256(k) == IF k = 0 THEN 1 ELSE 256 * Pow256(k - 1)

\* coder.encodeInt(n, w): big-endian, w bytes
encodeInt(n, w) == [i \in 1..w |-> (n \div Pow256(w - i)) % 256]

\* coder.decodeInt(b, w): big-endian value of the bytes given
RECURSIVE decodeInt(_, _)
decodeInt(b, w) ==
    IF Len(b) = 0 THEN 0
    ELSE b[Len(b)] + 256 * decodeInt(SubSeq(b, 1, Len(b) - 1), w)

\* Python slice s[a:b] (0-based, clipped to the sequence)
Slice(s, a, b) ==
    LET lo == IF a > Len(s) THEN Len(s) ELSE a
        hi == IF b > Len(s) THEN Len(s) ELSE b
    IN  IF hi <= lo THEN << >> ELSE SubSeq(s, lo + 1, hi)

\* Python slice s[a:]
SliceFrom(s, a) == Slice(s, a, Len(s))

RECURSIVE SumBytes(_)
SumBytes(s) == IF Len(s) = 0 THEN 0 ELSE s[1] + SumBytes(Tail(s))

IsPrefix(p, s) == Len(p) <= Len(s) /\ SubSeq(s, 1, Len(p)) = p

----------------------------------------------------------------------------
\* Nodes and their binary form.

Node(tag, id, code) == [tag |-> tag, id |-> id, code |-> code]

\* tags with a registered handler, by their code in the binary form
TagNames == <<"failure", "success", "iq", "stream:error", "pair-success">>

UnknownTagCode == 9

TagCode(tag) ==
    IF \E i \in 1..Len(TagNames) : TagNames[i] = tag
    THEN CHOOSE i \in 1..Len(TagNames) : TagNames[i] = tag
    ELSE UnknownTagCode

TagName(c) == IF c \in 1..Len(TagNames) THEN TagNames[c] ELSE "unknown"

\* WABinaryWriter(node).getData()
WABinaryWriter(node) == <<TagCode(node.tag), node.id, node.code>>

\* WABinaryReader(data).readNode(): StreamEndError (end) when the data ends early
WABinaryReader(data) ==
    IF Len(data) < 3 THEN [end |-> TRUE, node |-> Node("", 0, 0)]
    ELSE [end |-> FALSE, node |-> Node(TagName(data[1]), data[2], data[3])]

\* utils.inflate / its inverse: the compressed form is the reversed bytes
inflate(data) == [i \in 1..Len(data) |-> data[Len(data) + 1 - i]]

\* AEAD of a CipherState with nonce n: the ciphertext depends on the nonce and
\* carries an authentication tag over nonce and plaintext
Mac(n, pt) == (n + Len(pt) + SumBytes(pt) + 1) % 256

encrypt_with_ad(n, pt) == <<n>> \o pt \o <<Mac(n, pt)>>

\* decrypt_with_ad: the plaintext, or not ok (InvalidTag is raised)
decrypt_with_ad(n, ct) ==
    IF Len(ct) >= 2 /\ ct[1] = n
       /\ ct[Len(ct)] = Mac(n, SubSeq(ct, 2, Len(ct) - 1))
    THEN [ok |-> TRUE, pt |-> SubSeq(ct, 2, Len(ct) - 1)]
    ELSE [ok |-> FALSE, pt |-> << >>]

----------------------------------------------------------------------------
\* Failures, Deferreds and the record of the whole state.

NoFailure == [type |-> "None", arg |-> 0]

Failure(type, arg) == [type |-> type, arg |-> arg]

EmptyTable == [i \in {} |-> 0]

World ==
    [ws |-> ws, closeSent |-> closeSent, authState |-> authState,
     serverHelloDeferred |-> serverHelloDeferred,
     sendCipher |-> sendCipher, recvCipher |-> recvCipher, failure |-> failure,
     pendingRequest |-> pendingRequest, deferreds |-> deferreds,
     keepAliveLoop |-> keepAliveLoop, loops |-> loops, sent |-> sent,
     events |-> events, dispatched |-> dispatched,
     messageTagCounter |-> messageTagCounter,
     messageTagPrefix |-> messageTagPrefix,
     factoryAuthState |-> factoryAuthState,
     readyDeferred |-> readyDeferred, readyResult |-> readyResult,
     authDeferred |-> authDeferred, authResult |-> authResult,
     connNo |-> connNo, sealed |-> sealed, opened |-> opened,
     helloRest |-> helloRest]

Store(w) ==
    /\ ws' = w.ws
    /\ closeSent' = w.closeSent
    /\ authState' = w.authState
    /\ serverHelloDeferred' = w.serverHelloDeferred
    /\ sendCipher' = w.sendCipher
    /\ recvCipher' = w.recvCipher
    /\ failure' = w.failure
    /\ pendingRequest' = w.pendingRequest
    /\ deferreds' = w.deferreds
    /\ keepAliveLoop' = w.keepAliveLoop
    /\ loops' = w.loops
    /\ sent' = w.sent
    /\ events' = w.events
    /\ dispatched' = w.dispatched
    /\ messageTagCounter' = w.messageTagCounter
    /\ messageTagPrefix' = w.messageTagPrefix
    /\ factoryAuthState' = w.factoryAuthState
    /\ readyDeferred' = w.readyDeferred
    /\ readyResult' = w.readyResult
    /\ authDeferred' = w.authDeferred
    /\ authResult' = w.authResult
    /\ connNo' = w.connNo
    /\ sealed' = w.sealed
    /\ opened' = w.opened
    /\ helloRest' = w.helloRest

\* result of a call that may raise: the state it leaves and the exception
Returned(w) == [w |-> w, exc |-> NoFailure]

Raised(w, exc) == [w |-> w, exc |-> exc]

\* Deferred.callback / Deferred.errback on deferreds[d]; a LoopingCall that
\* waits for this Deferred is rescheduled when it fires
FireDeferred(w, d, how) ==
    LET def == w.deferreds[d]
        w1 == [w EXCEPT !.deferreds[d].state = how,
                        !.deferreds[d].fired = @ + 1]
    IN  IF def.loop # 0 /\ w.loops[def.loop] = "waiting"
        THEN [w1 EXCEPT !.loops[def.loop] = "scheduled"]
        ELSE w1

----------------------------------------------------------------------------
\* The factory (MultiDeviceWhatsAppClientFactory).

_onOpen(w) ==
    IF w.readyDeferred # "None"
    THEN [w EXCEPT !.readyDeferred = "None", !.readyResult = "callback"]
    ELSE w

\* variant: the ready Deferred is failed without looking whether it is still there
_onClose_unguarded(w) ==
    [w EXCEPT !.readyDeferred = "None", !.readyResult = "errback"]

_onClose(w) ==
    IF w.readyDeferred # "None"
    THEN [w EXCEPT !.readyDeferred = "None", !.readyResult = "errback"]
    ELSE w

authFailure(w, f) ==
    IF w.authDeferred # "None"
    THEN [w EXCEPT !.authDeferred = "None", !.authResult = f.type]
    ELSE w

authSuccess(w) ==
    IF w.authDeferred # "None"
    THEN [w EXCEPT !.authDeferred = "None", !.authResult = "callback"]
    ELSE w

clientConnectionFailed(w) ==
    LET w1 == [w EXCEPT !.ws = "failed"]
    IN  IF w1.readyDeferred # "None"
        THEN [w1 EXCEPT !.readyDeferred = "None", !.readyResult = "errback"]
        ELSE w1

\* connector.connect() when an AuthState was handed over by _restart
clientConnectionLost(w) ==
    IF w.factoryAuthState # "None"
    THEN [w EXCEPT !.ws = "connecting"]
    ELSE [w EXCEPT !.ws = "lost"]

\* variant: the AuthState is handed to the protocol but stays on the factory
buildProtocol_keepsAuthState(w) ==
    [w EXCEPT !.ws = "handshaking",
              !.closeSent = FALSE,
              !.authState = w.factoryAuthState,
              !.serverHelloDeferred = FALSE,
              !.sendCipher = NoCipher,
              !.recvCipher = NoCipher,
              !.failure = NoFailure,
              !.pendingRequest = EmptyTable,
              !.deferreds = << >>,
              !.keepAliveLoop = 0,
              !.loops = << >>,
              !.sent = << >>,
              !.events = << >>,
              !.dispatched = << >>,
              !.messageTagCounter = 0,
              !.messageTagPrefix = 0,
              !.connNo = @ + 1,
              !.sealed = 0,
              !.opened = 0,
              !.helloRest = 0]

\* a fresh protocol object replaces the previous one
buildProtocol(w) ==
    [w EXCEPT !.ws = "handshaking",
              !.closeSent = FALSE,
              !.authState = w.factoryAuthState,
              !.factoryAuthState = "None",
              !.serverHelloDeferred = FALSE,
              !.sendCipher = NoCipher,
              !.recvCipher = NoCipher,
              !.failure = NoFailure,
              !.pendingRequest = EmptyTable,
              !.deferreds = << >>,
              !.keepAliveLoop = 0,
              !.loops = << >>,
              !.sent = << >>,
              !.events = << >>,
              !.dispatched = << >>,
              !.messageTagCounter = 0,
              !.messageTagPrefix = 0,
              !.connNo = @ + 1,
              !.sealed = 0,
              !.opened = 0,
              !.helloRest = 0]

----------------------------------------------------------------------------
\* The protocol (MultiDeviceWhatsAppClientProtocol): transport and failures.

_authDone(w) == w.authDeferred = "None"

\* WebSocketClientProtocol.sendMessage: written only while the websocket is open
sendMessage(w, payload) ==
    IF w.ws = "open" /\ ~w.closeSent
    THEN [w EXCEPT !.sent = Append(@, payload)]
    ELSE w

\* WebSocketClientProtocol.sendClose(code=1000)
sendClose(w) ==
    IF w.ws = "open" THEN [w EXCEPT !.closeSent = TRUE] ELSE w

\* listeners registered by buildProtocol: "open" -> _onOpen, "close" -> _onClose
fire(w, ev) ==
    LET w1 == [w EXCEPT !.events = Append(@, ev)]
    IN  IF ev.name = "open" THEN _onOpen(w1)
        ELSE IF ev.name = "close" THEN _onClose(w1)
        ELSE w1

OpenEvent == [name |-> "open", isLoggedOut |-> FALSE, isAuthDone |-> TRUE,
              reason |-> ""]

ConnectionClosedError(isLoggedOut, isAuthDone, reason) ==
    [name |-> "close", isLoggedOut |-> isLoggedOut, isAuthDone |-> isAuthDone,
     reason |-> reason]

\* variant: a failure is recorded only when none is recorded yet
_handleFailure_keepsFirst(w, f, disconnect) ==
    LET w1 == IF w.failure = NoFailure THEN [w EXCEPT !.failure = f] ELSE w
        w2 == IF ~_authDone(w1)
              THEN [w1 EXCEPT !.sendCipher = NoCipher, !.recvCipher = NoCipher]
              ELSE w1
    IN  IF disconnect THEN sendClose(w2) ELSE w2

_handleFailure(w, f, disconnect) ==
    LET w1 == [w EXCEPT !.failure = f]
        w2 == IF ~_authDone(w1)
              THEN [w1 EXCEPT !.sendCipher = NoCipher, !.recvCipher = NoCipher]
              ELSE w1
    IN  IF disconnect THEN sendClose(w2) ELSE w2

_restart(w) ==
    [w EXCEPT !.factoryAuthState = w.authState,
              !.authState = "None",
              !.sendCipher = NoCipher,
              !.recvCipher = NoCipher]

\* variant: every NodeStreamError counts as a logout, whatever its code
CloseReason_anyStreamErrorLogsOut(f) ==
    IF f = NoFailure
    THEN ConnectionClosedError(FALSE, TRUE, "Connection Closed Cleanly")
    ELSE IF f.type = "NodeStreamError"
    THEN ConnectionClosedError(TRUE, TRUE, "Device Logged Out")
    ELSE IF f.type = "AuthenticationFailedError"
    THEN ConnectionClosedError(FALSE, FALSE, "Authentication Failed")
    ELSE ConnectionClosedError(FALSE, TRUE, "Unknown Failure")

\* the ConnectionClosedError that onClose derives from the recorded failure
CloseReason(f) ==
    IF f = NoFailure
    THEN ConnectionClosedError(FALSE, TRUE, "Connection Closed Cleanly")
    ELSE IF f.type = "NodeStreamError"
    THEN IF f.arg = 401
         THEN ConnectionClosedError(TRUE, TRUE, "Device Logged Out")
         ELSE ConnectionClosedError(FALSE, TRUE, "Unhandled Stream Error")
    ELSE IF f.type = "AuthenticationFailedError"
    THEN ConnectionClosedError(FALSE, FALSE, "Authentication Failed")
    ELSE ConnectionClosedError(FALSE, TRUE, "Unknown Failure")

\* variant: the failure goes to the auth Deferred even when that is already gone
CloseFailsAuth_anyFailure(f, authDef) == f # NoFailure

\* whether onClose hands the failure to the auth Deferred instead of firing "close"
CloseFailsAuth(f, authDef) == f # NoFailure /\ authDef # "None"

onClose(w) ==
    LET k  == w.keepAliveLoop
        w1 == IF k # 0 /\ w.loops[k] \in {"scheduled", "waiting"}
              THEN [w EXCEPT !.loops[k] = "stopped", !.keepAliveLoop = 0]
              ELSE w
        f  == w1.failure
        w2 == [w1 EXCEPT !.failure = NoFailure, !.ws = "closed"]
    IN  IF CloseFailsAuth(f, w2.authDeferred)
        THEN authFailure(w2, f)
        ELSE fire(w2, CloseReason(f))

----------------------------------------------------------------------------
\* Outbound nodes, requests and the keep-alive loop.

sendMessageNode(w, node) ==
    IF w.sendCipher = NoCipher
    THEN Raised(w, Failure("AttributeError", 0))
    ELSE LET encoded   == <<0>> \o WABinaryWriter(node)
             encrypted == encrypt_with_ad(w.sendCipher, encoded)
             payload   == encodeInt(Len(encrypted), 3) \o encrypted
             w1        == [w EXCEPT !.sendCipher = @ + 1, !.sealed = @ + 1]
         IN  Returned(sendMessage(w1, payload))

\* a Deferred of request(): `returned` once request() has handed it to its caller
NewDeferred(id) ==
    [id |-> id, state |-> "pending", fired |-> 0, loop |-> 0, returned |-> FALSE]

\* the Deferred is stored in the table before the node is sent; it reaches the
\* caller only if sendMessageNode does not raise
request(w, node) ==
    LET d  == Len(w.deferreds) + 1
        w1 == [w EXCEPT
                 !.deferreds = Append(@, NewDeferred(node.id)),
                 !.pendingRequest =
                     [i \in (DOMAIN @) \cup {node.id} |->
                         IF i = node.id THEN d ELSE @[i]]]
        r  == sendMessageNode(w1, node)
    IN  IF r.exc # NoFailure THEN r
        ELSE Returned([r.w EXCEPT !.deferreds[d].returned = TRUE])

\* suffixes run 1..99 under one prefix, then the prefix is dropped
TagCounterLimit == 99

\* the id "<prefix>-<suffix>" is the number 100 * prefix + suffix
_generateMessageId(w, random) ==
    LET prefix  == IF w.messageTagPrefix = 0 THEN random ELSE w.messageTagPrefix
        counter == w.messageTagCounter + 1
        tag     == 100 * prefix + counter
    IN  [id |-> tag,
         w  |-> IF counter = TagCounterLimit
                THEN [w EXCEPT !.messageTagPrefix = 0, !.messageTagCounter = 0]
                ELSE [w EXCEPT !.messageTagPrefix = prefix,
                               !.messageTagCounter = counter]]

\* LoopingCall(loop).start(20, now=False): nothing is called at start
_startKeepAliveLoop(w) ==
    [w EXCEPT !.loops = Append(@, "scheduled"),
              !.keepAliveLoop = Len(w.loops) + 1]

\* one call of loop() by LoopingCall k: a raise ends the LoopingCall, otherwise
\* it waits for the returned Deferred before it is scheduled again
loop(w, k, random) ==
    LET g == _generateMessageId(w, random)
        r == request(g.w, Node("iq", g.id, 0))
        d == Len(r.w.deferreds)
    IN  IF r.exc # NoFailure
        THEN [r.w EXCEPT !.loops[k] = "failed"]
        ELSE [r.w EXCEPT !.loops[k] = "waiting", !.deferreds[d].loop = k]

----------------------------------------------------------------------------
\* The handshake driver.

CLIENT_HELLO == 10

CLIENT_FINISH == 12

\* variant: the payload is built for pairing whatever the AuthState holds
_buildClientPayloadHandshake_pairingOnly(w) == <<0, 1>>

\* ClientPayload: passive and has-regData flags
_buildClientPayloadHandshake(w) ==
    IF w.authState # "me" THEN <<0, 1>> ELSE <<1, 0>>

_sendClientHello(w) ==
    LET w1  == IF w.authState = "None" THEN [w EXCEPT !.authState = "new"] ELSE w
        clientHelloMsg == <<CLIENT_HELLO>>
        clientHelloPayload ==
            PROLOGUE \o encodeInt(Len(clientHelloMsg), 3) \o clientHelloMsg
    IN  sendMessage(w1, clientHelloPayload)

_waitServerHello(w) ==
    [_sendClientHello(w) EXCEPT !.serverHelloDeferred = TRUE]

\* the bytes of a ServerHello: noise tag, static key, then the certificate
\* (issuer, key, expires; 0 when absent) and its signature
NOISE_OK == 200

CERTIFICATE_ISSUER == 77

ByteAt(b, i) == IF i <= Len(b) THEN b[i] ELSE 0

ParseServerHello(b) ==
    [noise |-> ByteAt(b, 1), static |-> ByteAt(b, 2), issuer |-> ByteAt(b, 3),
     key |-> ByteAt(b, 4), expires |-> ByteAt(b, 5), signature |-> ByteAt(b, 6)]

\* curve.Curve.verifySignature over the raw details (issuer, key, expires)
SignatureOf(issuer, key, expires) == (issuer + 3 * key + 7 * expires + 1) % 256

\* variant: the expiry is checked before issuer, signature and key
CertificateError_expiryFirst(sh) ==
    IF sh.expires # 0 /\ sh.expires < Now THEN 4
    ELSE IF sh.issuer # CERTIFICATE_ISSUER THEN 1
    ELSE IF sh.signature # SignatureOf(sh.issuer, sh.key, sh.expires) THEN 2
    ELSE IF sh.key # sh.static THEN 3
    ELSE 0

\* first certificate check that fails: 1 issuer, 2 signature, 3 key, 4 expiry; 0 none
CertificateError(sh) ==
    IF sh.issuer # CERTIFICATE_ISSUER THEN 1
    ELSE IF sh.signature # SignatureOf(sh.issuer, sh.key, sh.expires) THEN 2
    ELSE IF sh.key # sh.static THEN 3
    ELSE IF sh.expires # 0 /\ sh.expires < Now THEN 4
    ELSE 0

\* _doHandshake from the point where the awaited ServerHello is delivered
_doHandshake(w, sh) ==
    IF sh.noise # NOISE_OK
    THEN Raised(w, Failure("NoiseError", 0))
    ELSE IF CertificateError(sh) # 0
    THEN Raised(w, Failure("AuthenticationFailedError", CertificateError(sh)))
    ELSE IF w.authState = "None"
    THEN Raised(w, Failure("AttributeError", 0))
    ELSE LET clientFinishMessage == <<CLIENT_FINISH>> \o _buildClientPayloadHandshake(w)
             clientFinishPayload ==
                 encodeInt(Len(clientFinishMessage), 3) \o clientFinishMessage
             w1 == [w EXCEPT !.sendCipher = 0, !.recvCipher = 0]
         IN  Returned(_startKeepAliveLoop(sendMessage(w1, clientFinishPayload)))

\* _doHandshake().addErrback(self._handleFailure), up to the first yield
authenticate(w) == _waitServerHello(w)

onOpen(w) ==
    LET w1 == [w EXCEPT !.ws = "open"]
    IN  IF w1.authState = "None" THEN fire(w1, OpenEvent) ELSE _waitServerHello(w1)

----------------------------------------------------------------------------
\* Node handlers and the dispatcher.

FailureHandler(w, node) ==
    IF ~_authDone(w)
    THEN Raised(w, Failure("NameError", 0))
    ELSE Returned(w)

SuccessHandler(w, node) == Returned(authSuccess(w))

IqHandler(w, node) ==
    IF node.id \in DOMAIN w.pendingRequest
    THEN LET d  == w.pendingRequest[node.id]
             w1 == [w EXCEPT !.pendingRequest =
                        [i \in (DOMAIN @) \ {node.id} |-> @[i]]]
         IN  Returned(FireDeferred(w1, d, "callback"))
    ELSE Returned(w)

StreamErrorHandler(w, node) ==
    Raised(w, Failure("NodeStreamError", node.code))

PairSuccessHandler(w, node) ==
    IF w.authState = "None"
    THEN Raised(w, Failure("AttributeError", 0))
    ELSE Returned(_restart([w EXCEPT !.authState = "me"]))

\* handlers.createNodeHander(tag): "None" for a tag without handler
createNodeHander(tag) ==
    IF \E i \in 1..Len(TagNames) : TagNames[i] = tag THEN tag ELSE "None"

handleNode(handler, w, node) ==
    IF handler = "failure" THEN FailureHandler(w, node)
    ELSE IF handler = "success" THEN SuccessHandler(w, node)
    ELSE IF handler = "iq" THEN IqHandler(w, node)
    ELSE IF handler = "stream:error" THEN StreamErrorHandler(w, node)
    ELSE PairSuccessHandler(w, node)

messageNodeReceived(w, node) ==
    LET w1 == [w EXCEPT !.dispatched = Append(@, node)]
        nodeHandler == createNodeHander(node.tag)
    IN  IF nodeHandler = "None" THEN w1
        ELSE LET r == handleNode(nodeHandler, w1, node)
             IN  IF r.exc # NoFailure
                 THEN _handleFailure(r.w, r.exc, FALSE)
                 ELSE r.w

----------------------------------------------------------------------------
\* Inbound websocket messages.

\* variant: the receive nonce also advances when the frame fails to open
onFrame_countsFailedOpen(w, encrypted) ==
    IF w.recvCipher = NoCipher THEN w
    ELSE LET dec == decrypt_with_ad(w.recvCipher, encrypted)
         IN  IF ~dec.ok
             THEN _handleFailure([w EXCEPT !.recvCipher = @ + 1],
                                 Failure("InvalidTag", 0), TRUE)
             ELSE LET w1 == [w EXCEPT !.recvCipher = @ + 1, !.opened = @ + 1]
                      decrypted == dec.pt
                      body == IF (decrypted[1] \div FLAG_COMPRESSED) % 2 = 1
                              THEN inflate(Tail(decrypted))
                              ELSE Tail(decrypted)
                      rd == WABinaryReader(body)
                  IN  IF rd.end THEN w1 ELSE messageNodeReceived(w1, rd.node)

\* one frame: open it with the receive cipher, decode it, dispatch the node
onFrame(w, encrypted) ==
    IF w.recvCipher = NoCipher THEN w
    ELSE LET dec == decrypt_with_ad(w.recvCipher, encrypted)
         IN  IF ~dec.ok
             THEN _handleFailure(w, Failure("InvalidTag", 0), TRUE)
             ELSE LET w1 == [w EXCEPT !.recvCipher = @ + 1, !.opened = @ + 1]
                      decrypted == dec.pt
                      body == IF (decrypted[1] \div FLAG_COMPRESSED) % 2 = 1
                              THEN inflate(Tail(decrypted))
                              ELSE Tail(decrypted)
                      rd == WABinaryReader(body)
                  IN  IF rd.end THEN w1 ELSE messageNodeReceived(w1, rd.node)

\* variant: `if message:` instead of `while message:`, only the first frame is read
onMessageFrames_firstOnly(w, message) ==
    IF Len(message) = 0 THEN w
    ELSE LET messageLength == decodeInt(Slice(message, 0, 3), 3)
         IN  onFrame(w, Slice(message, 3, messageLength + 3))

\* the while loop of onMessage over the concatenated frames
RECURSIVE onMessageFrames(_, _)
onMessageFrames(w, message) ==
    IF Len(message) = 0 THEN w
    ELSE LET messageLength == decodeInt(Slice(message, 0, 3), 3)
             encrypted     == Slice(message, 3, messageLength + 3)
             rest          == SliceFrom(message, messageLength + 3)
         IN  onMessageFrames(onFrame(w, encrypted), rest)

\* the bytes of a message that lie beyond its first length-prefixed frame
RestOf(message) == SliceFrom(message, decodeInt(Slice(message, 0, 3), 3) + 3)

\* variant: after the ServerHello, the rest of the message is read as frames
onMessage_thenFrames(w, message) ==
    LET w0 == [w EXCEPT !.dispatched = << >>]
    IN  IF w0.serverHelloDeferred
        THEN LET serverHello == ParseServerHello(SliceFrom(message, 3))
                 w1 == [w0 EXCEPT !.serverHelloDeferred = FALSE,
                                  !.helloRest = Len(RestOf(message))]
                 r  == _doHandshake(w1, serverHello)
                 w2 == IF r.exc # NoFailure
                       THEN _handleFailure(r.w, r.exc, FALSE)
                       ELSE r.w
             IN  onMessageFrames(w2, RestOf(message))
        ELSE onMessageFrames(w0, message)

onMessage(w, message) ==
    LET w0 == [w EXCEPT !.dispatched = << >>]
    IN  IF w0.serverHelloDeferred
        THEN LET serverHello == ParseServerHello(SliceFrom(message, 3))
                 w1 == [w0 EXCEPT !.serverHelloDeferred = FALSE,
                                  !.helloRest = Len(RestOf(message))]
                 r  == _doHandshake(w1, serverHello)
             IN  IF r.exc # NoFailure
                 THEN _handleFailure(r.w, r.exc, FALSE)
                 ELSE r.w
        ELSE onMessageFrames(w0, message)

----------------------------------------------------------------------------
\* Inputs: what the application calls and what the server sends.

\* ids the application uses for its own requests
RequestIds == {1}

\* the random prefixes generateRandomNumber can produce
Prefixes == {1}

\* nodes the server sends
InNodes ==
    {Node("failure", 1, 401), Node("success", 0, 0), Node("iq", 1, 0),
     Node("iq", 101, 0), Node("stream:error", 0, 401),
     Node("stream:error", 0, 500),
     Node("pair-success", 0, 0), Node("unknown", 1, 0)}

\* nodes the application sends without expecting a response
OutNodes == {Node("receipt", 1, 0)}

STATIC_KEY == 50

ServerHelloBytes(noise, issuer, key, expires, sigDelta) ==
    LET body == <<noise, STATIC_KEY, issuer, key, expires,
                  (SignatureOf(issuer, key, expires) + sigDelta) % 256>>
    IN  encodeInt(Len(body), 3) \o body

\* the valid ServerHello for each expiry, and one with each single defect
ServerHellos ==
    {ServerHelloBytes(NOISE_OK, CERTIFICATE_ISSUER, STATIC_KEY, e, 0) :
        e \in {0, Now - 1, Now, Now + 1}}
    \cup {ServerHelloBytes(0, CERTIFICATE_ISSUER, STATIC_KEY, 0, 0),
          ServerHelloBytes(NOISE_OK, CERTIFICATE_ISSUER + 1, STATIC_KEY, 0, 0),
          ServerHelloBytes(NOISE_OK, CERTIFICATE_ISSUER, STATIC_KEY, 0, 1),
          ServerHelloBytes(NOISE_OK, CERTIFICATE_ISSUER, STATIC_KEY + 1, 0, 0)}

\* a frame as the server seals it with nonce n
SealedFrame(n, plaintext) ==
    LET encrypted == encrypt_with_ad(n, plaintext)
    IN  encodeInt(Len(encrypted), 3) \o encrypted

CORRUPT_NONCE == 255

\* a frame whose last byte is missing: its declared length exceeds what follows
Truncated(frame) == SubSeq(frame, 1, Len(frame) - 1)

FrameChoices ==
    [kind : {"node"}, node : InNodes]
    \cup [kind : {"compressed"}, node : {Node("iq", 1, 0)}]
    \cup [kind : {"corrupt", "truncated", "end"}, node : {Node("iq", 1, 0)}]

FrameBytes(c, n) ==
    IF c.kind = "node" THEN SealedFrame(n, <<0>> \o WABinaryWriter(c.node))
    ELSE IF c.kind = "compressed"
    THEN SealedFrame(n, <<FLAG_COMPRESSED>> \o inflate(WABinaryWriter(c.node)))
    ELSE IF c.kind = "corrupt"
    THEN SealedFrame(CORRUPT_NONCE, <<0>> \o WABinaryWriter(c.node))
    ELSE IF c.kind = "truncated"
    THEN Truncated(SealedFrame(n, <<0>> \o WABinaryWriter(c.node)))
    ELSE SealedFrame(n, <<0>>)

\* the frames cs sealed with consecutive nonces from n on, concatenated
RECURSIVE MessageBytes(_, _)
MessageBytes(cs, n) ==
    IF Len(cs) = 0 THEN << >>
    ELSE FrameBytes(cs[1], n) \o MessageBytes(Tail(cs), n + 1)

\* the frames that concatenated messages are made of: a node of each tag, a
\* compressed node, a frame that fails to open and one whose node ends early
SeqFrameChoices ==
    {c \in FrameChoices :
        \/ c.kind \in {"compressed", "corrupt", "end"}
        \/ c.kind = "node" /\ c.node \in {Node("failure", 1, 401), Node("success", 0, 0),
                                           Node("iq", 1, 0), Node("pair-success", 0, 0)}}

FrameSeqs == UNION {[1..k -> SeqFrameChoices] : k \in 1..MaxFrames}

\* the nonce the server seals its next frame with
ServerNonce == IF recvCipher = NoCipher THEN 0 ELSE recvCipher

CanSend == closeSent \/ Len(sent) < MaxSent

CanSeal == sendCipher = NoCipher \/ sendCipher < MaxNonce

----------------------------------------------------------------------------
\* The state machine.

\* the factory as constructed by connectToWhatsAppServer, before any connection
FreshWorld ==
    [ws |-> "connecting", closeSent |-> FALSE, authState |-> "None",
     serverHelloDeferred |-> FALSE,
     sendCipher |-> NoCipher, recvCipher |-> NoCipher, failure |-> NoFailure,
     pendingRequest |-> EmptyTable, deferreds |-> << >>,
     keepAliveLoop |-> 0, loops |-> << >>, sent |-> << >>,
     events |-> << >>, dispatched |-> << >>,
     messageTagCounter |-> 0, messageTagPrefix |-> 0,
     factoryAuthState |-> "None",
     readyDeferred |-> "pending", readyResult |-> "unset",
     authDeferred |-> "pending", authResult |-> "unset",
     connNo |-> 0, sealed |-> 0, opened |-> 0, helloRest |-> 0]

Load(w) ==
    /\ ws = w.ws
    /\ closeSent = w.closeSent
    /\ authState = w.authState
    /\ serverHelloDeferred = w.serverHelloDeferred
    /\ sendCipher = w.sendCipher
    /\ recvCipher = w.recvCipher
    /\ failure = w.failure
    /\ pendingRequest = w.pendingRequest
    /\ deferreds = w.deferreds
    /\ keepAliveLoop = w.keepAliveLoop
    /\ loops = w.loops
    /\ sent = w.sent
    /\ events = w.events
    /\ dispatched = w.dispatched
    /\ messageTagCounter = w.messageTagCounter
    /\ messageTagPrefix = w.messageTagPrefix
    /\ factoryAuthState = w.factoryAuthState
    /\ readyDeferred = w.readyDeferred
    /\ readyResult = w.readyResult
    /\ authDeferred = w.authDeferred
    /\ authResult = w.authResult
    /\ connNo = w.connNo
    /\ sealed = w.sealed
    /\ opened = w.opened
    /\ helloRest = w.helloRest

Init == Load(FreshWorld)

ClientConnectionFailed ==
    /\ ws = "connecting"
    /\ Store(clientConnectionFailed(World))

BuildProtocol ==
    /\ ws = "connecting"
    /\ connNo < MaxConn
    /\ Store(buildProtocol(World))

OnOpen ==
    /\ ws = "handshaking"
    /\ Store(onOpen(World))

OnClose ==
    /\ ws \in {"handshaking", "open"}
    /\ Store(onClose(World))

ClientConnectionLost ==
    /\ ws = "closed"
    /\ Store(clientConnectionLost(World))

Authenticate ==
    /\ ws = "open"
    /\ CanSend
    /\ Store(authenticate(World))

Request ==
    /\ ws = "open"
    /\ CanSend /\ CanSeal
    /\ Len(deferreds) < MaxRequests
    /\ \E id \in RequestIds : Store(request(World, Node("iq", id, 0)).w)

SendMessageNode ==
    /\ ws = "open"
    /\ CanSend /\ CanSeal
    /\ \E node \in OutNodes : Store(sendMessageNode(World, node).w)

KeepAliveTick ==
    /\ ws \in {"open", "closed"}
    /\ CanSend /\ CanSeal
    /\ Len(deferreds) < MaxRequests
    /\ \E k \in 1..Len(loops) :
          /\ loops[k] = "scheduled"
          /\ \E random \in Prefixes : Store(loop(World, k, random))

OnMessageServerHello ==
    /\ ws = "open"
    /\ \E message \in ServerHellos :
          LET w == onMessage(World, message)
          IN  /\ Len(w.loops) <= MaxLoops
              /\ Len(w.sent) <= MaxSent
              /\ Store(w)

\* a websocket message holding one frame
OnMessageFrame ==
    /\ ws = "open"
    /\ recvCipher # NoCipher => recvCipher < MaxNonce
    /\ \E c \in FrameChoices :
          Store(onMessage(World, MessageBytes(<<c>>, ServerNonce)))

\* a websocket message holding several concatenated frames
OnMessageFrames ==
    /\ ws = "open"
    /\ \E cs \in FrameSeqs :
          /\ recvCipher # NoCipher => recvCipher + Len(cs) <= MaxNonce
          /\ Store(onMessage(World, MessageBytes(cs, ServerNonce)))

Next ==
    \/ ClientConnectionFailed
    \/ BuildProtocol
    \/ OnOpen
    \/ OnClose
    \/ ClientConnectionLost
    \/ Authenticate
    \/ Request
    \/ SendMessageNode
    \/ KeepAliveTick
    \/ OnMessageServerHello
    \/ OnMessageFrame

Spec == Init /\ [][Next]_vars

\* frames that move the session: the nodes that end the authentication, record
\* a failure or restart the connection, and a frame that fails to open
SessionFrameChoices ==
    {c \in FrameChoices :
        \/ c.kind = "corrupt"
        \/ c.kind = "node" /\ c.node.tag \in {"failure", "success", "stream:error",
                                               "pair-success"}}

\* a websocket message holding one of these frames
OnMessageSessionFrame ==
    /\ ws = "open"
    /\ recvCipher # NoCipher => recvCipher < MaxNonce
    /\ \E c \in SessionFrameChoices :
          Store(onMessage(World, MessageBytes(<<c>>, ServerNonce)))

\* The session without application requests: connection set-up, handshake,
\* inbound messages and close.
NextSession ==
    \/ ClientConnectionFailed
    \/ BuildProtocol
    \/ OnOpen
    \/ OnClose
    \/ ClientConnectionLost
    \/ Authenticate
    \/ OnMessageServerHello
    \/ OnMessageSessionFrame

SpecSession == Init /\ [][NextSession]_vars

\* the first connection right after its handshake: opened, authenticate()
\* called, a valid ServerHello received and the ClientFinish sent
HandshakenWorld ==
    onMessage(authenticate(onOpen(buildProtocol(FreshWorld))),
              ServerHelloBytes(NOISE_OK, CERTIFICATE_ISSUER, STATIC_KEY, 0, 0))

InitFrames == Load(HandshakenWorld)

\* A connection past its handshake: the application issues requests and the
\* server sends websocket messages of several frames.
NextFrames ==
    \/ Request
    \/ OnMessageFrames

SpecFrames == InitFrames /\ [][NextFrames]_vars

CanWrite == closeSent \/ Len(sent) < MaxWritten

\* authenticate() called again on a connection that already ran a handshake
Reauthenticate ==
    /\ ws = "open"
    /\ CanWrite
    /\ Len(loops) < MaxHandshakes
    /\ Store(authenticate(World))

\* the ServerHello that answers the ClientHello of a repeated handshake: a valid
\* one or one with a foreign issuer
OnMessageServerHelloAgain ==
    /\ ws = "open"
    /\ serverHelloDeferred
    /\ \E issuer \in {CERTIFICATE_ISSUER, CERTIFICATE_ISSUER + 1} :
          LET w == onMessage(World,
                       ServerHelloBytes(NOISE_OK, issuer, STATIC_KEY, 0, 0))
          IN  Len(w.sent) <= MaxWritten /\ Store(w)

\* the application sends a node
SealNode ==
    /\ ws = "open"
    /\ CanWrite /\ CanSeal
    /\ \E node \in OutNodes : Store(sendMessageNode(World, node).w)

\* frames that open, fail to open, record a failure, or end the authentication
NonceFrameChoices ==
    {c \in FrameChoices :
        \/ c.kind = "corrupt"
        \/ c.kind = "node" /\ c.node \in {Node("iq", 1, 0), Node("failure", 1, 401),
                                           Node("success", 0, 0)}}

OpenFrame ==
    /\ ws = "open"
    /\ recvCipher # NoCipher => recvCipher < MaxNonce
    /\ \E c \in NonceFrameChoices :
          Store(onMessage(World, MessageBytes(<<c>>, ServerNonce)))

\* A connection past its handshake on which nodes are sealed and opened and the
\* application repeats authenticate().
NextNonce ==
    \/ Reauthenticate
    \/ OnMessageServerHelloAgain
    \/ SealNode
    \/ OpenFrame

SpecNonce == InitFrames /\ [][NextNonce]_vars

\* the first connection once its websocket is open, before authenticate()
OpenedWorld == onOpen(buildProtocol(FreshWorld))

InitHello == Load(OpenedWorld)

\* frames the server concatenates behind a ServerHello, sealed from nonce 0 on
TrailingFrameChoices ==
    {c \in FrameChoices : c.kind = "node" /\ c.node = Node("iq", 1, 0)}

TrailingSeqs ==
    {<< >>} \cup UNION {[1..k -> TrailingFrameChoices] : k \in 1..MaxFrames}

\* the awaited ServerHello (valid, or with a foreign issuer) arrives in one
\* websocket message together with the frames that follow it
OnMessageServerHelloFrames ==
    /\ ws = "open"
    /\ serverHelloDeferred
    /\ \E issuer \in {CERTIFICATE_ISSUER, CERTIFICATE_ISSUER + 1} :
       \E cs \in TrailingSeqs :
          LET w == onMessage(World,
                       ServerHelloBytes(NOISE_OK, issuer, STATIC_KEY, 0, 0)
                           \o MessageBytes(cs, 0))
          IN  Len(w.sent) <= MaxWritten /\ Store(w)

\* A connection from its opening to its close: authenticate() is called
\* (repeatedly), each ServerHello arrives with or without frames behind it, and
\* single frames arrive at any time.
NextHello ==
    \/ Reauthenticate
    \/ OnMessageServerHelloFrames
    \/ OpenFrame
    \/ OnClose

SpecHello == InitHello /\ [][NextHello]_vars

----------------------------------------------------------------------------
\* Vocabulary of the properties.

\* number of "close" events fired on the current connection
CloseCount(evs) == Cardinality({i \in 1..Len(evs) : evs[i].name = "close"})

\* a step in which onMessage handed at least one node to the dispatcher
Dispatching ==
    /\ recvCipher # NoCipher
    /\ recvCipher' # recvCipher
    /\ Len(dispatched') > 0

\* the step of onClose
Closing == ws \in {"handshaking", "open"} /\ ws' = "closed"

\* a step in which request() created a Deferred
Requesting == Len(deferreds') = Len(deferreds) + 1

\* a step in which a LoopingCall called loop()
Ticking ==
    \E k \in 1..Len(loops) :
        /\ loops[k] = "scheduled"
        /\ Len(loops') = Len(loops)
        /\ loops'[k] \in {"waiting", "failed"}

\* the nodes sealed in the frames cs, in frame order
RECURSIVE NodesOf(_)
NodesOf(cs) ==
    IF Len(cs) = 0 THEN << >>
    ELSE IF cs[1].kind = "end" THEN NodesOf(Tail(cs))
    ELSE <<cs[1].node>> \o NodesOf(Tail(cs))

\* messages whose frames are all validly sealed
ValidFrameSeqs ==
    {cs \in FrameSeqs :
        \A i \in 1..Len(cs) : cs[i].kind \notin {"corrupt", "truncated"}}

ReceivingFrames == ws = "open" /\ ~serverHelloDeferred /\ recvCipher # NoCipher

----------------------------------------------------------------------------
\* Properties.

\* C1: when a node is dispatched whose id has a pending request (one whose
\* Deferred request() returned), that slot is completed with the node (once) and
\* removed from the pending table, whatever the node's tag.
C1_PendingCompletedOnDispatch ==
    [][Dispatching =>
        \A i \in 1..Len(dispatched') :
            LET id == dispatched'[i].id
            IN  (id \in DOMAIN pendingRequest
                 /\ deferreds[pendingRequest[id]].returned) =>
                    /\ id \notin DOMAIN pendingRequest'
                    /\ deferreds'[pendingRequest[id]].state = "callback"
                    /\ deferreds'[pendingRequest[id]].fired = 1]_vars

\* C2: onClose fails every request Deferred that is still pending (and was
\* returned by request()) and removes its slot from the pending table.
C2_CloseFailsPending ==
    [][Closing =>
        \A d \in 1..Len(deferreds) :
            (deferreds[d].state = "pending" /\ deferreds[d].returned) =>
                /\ deferreds'[d].state = "errback"
                /\ deferreds[d].id \notin DOMAIN pendingRequest']_vars

\* C3: request() on a connection without send cipher returns its Deferred, that
\* Deferred has already failed, and nothing is written to the websocket.
C3_RequestWithoutCipherFails ==
    [][(Requesting /\ ws = "open" /\ sendCipher = NoCipher) =>
        /\ deferreds'[Len(deferreds')].returned
        /\ deferreds'[Len(deferreds')].state = "errback"
        /\ sent' = sent]_vars

\* C4: the auth Deferred is only ever fired with the connection or with a failure
\* of type AuthenticationFailedError.
C4_AuthFailsOnlyWithAuthenticationFailed ==
    authResult \in {"unset", "callback", "AuthenticationFailedError"}

\* C5: once an exception of the handshake driver is recorded on an open
\* connection, the client has initiated the websocket close (code 1000).
C5_HandshakeErrorClosesSocket ==
    (ws = "open" /\ failure.type \in {"NoiseError", "AuthenticationFailedError"})
        => closeSent

\* C6 (as stated): a closed connection has fired exactly one "close" event.
C6_CloseEventExactlyOnce == ws = "closed" => CloseCount(events) = 1

\* C6 (amended): onClose fires "close" exactly once, unless a failure is recorded
\* while the auth Deferred is still outstanding: then it fires no "close" event and
\* fails the auth Deferred with that failure.  No other step fires "close", so a
\* connection never fires it twice.
C6_CloseEventUnlessAuthFails ==
    /\ [](CloseCount(events) <= 1)
    /\ [][/\ Closing =>
              IF failure # NoFailure /\ authDeferred = "pending"
              THEN /\ CloseCount(events') = CloseCount(events)
                   /\ authDeferred' = "None"
                   /\ authResult' = failure.type
              ELSE /\ CloseCount(events') = CloseCount(events) + 1
                   /\ authResult' = authResult
          /\ (~Closing /\ connNo' = connNo) =>
                 CloseCount(events') = CloseCount(events)]_vars

\* C6 witness: a connection closed without a "close" event, its failure handed
\* to the auth Deferred.
C6_Witness ==
    /\ ws = "closed"
    /\ CloseCount(events) = 0
    /\ authResult = "AuthenticationFailedError"

\* C7: after authentication is done, dispatching a `failure` node with code 401
\* records NodeStreamError(401), and the close of a connection with that failure
\* recorded fires "close" with isLoggedOut.
C7_Failure401LogsOut ==
    [][/\ (Dispatching /\ authDeferred = "None"
           /\ \E i \in 1..Len(dispatched') :
                  dispatched'[i].tag = "failure" /\ dispatched'[i].code = 401)
          => failure' = Failure("NodeStreamError", 401)
       /\ (Closing /\ authDeferred = "None"
           /\ failure = Failure("NodeStreamError", 401))
          => /\ Len(events') = Len(events) + 1
             /\ events'[Len(events')].name = "close"
             /\ events'[Len(events')].isLoggedOut]_vars

\* C8: only the first message written to the websocket of a connection starts
\* with the prologue.
C8_PrologueOnlyOnFirstMessage ==
    \A i \in 2..Len(sent) : ~IsPrefix(PROLOGUE, sent[i])

\* C9 (as stated): every validly sealed frame of a websocket message is opened and
\* its node dispatched, once and in frame order.
C9_EveryFrameDispatched ==
    ReceivingFrames =>
        \A cs \in ValidFrameSeqs :
            onMessage(World, MessageBytes(cs, recvCipher)).dispatched = NodesOf(cs)

\* C9 (amended): the nodes dispatched for a websocket message of validly sealed
\* frames are a prefix of the frames' nodes, in frame order and once each; the
\* prefix is proper only when a dispatched node left the connection without
\* receive cipher, and then the remaining frames are skipped.
C9_FramesDispatchedInOrder ==
    ReceivingFrames =>
        \A cs \in ValidFrameSeqs :
            LET w   == onMessage(World, MessageBytes(cs, recvCipher))
                out == w.dispatched
            IN  /\ Len(out) <= Len(NodesOf(cs))
                /\ out = SubSeq(NodesOf(cs), 1, Len(out))
                /\ out # NodesOf(cs) => (Len(out) >= 1 /\ w.recvCipher = NoCipher)

\* C9 witness: one websocket message made the dispatcher see two nodes.
C9_Witness ==
    /\ Len(dispatched) = 2
    /\ dispatched[1] # dispatched[2]
    /\ recvCipher = 2

\* C10: loop() is only ever called by a keep-alive LoopingCall on an open
\* connection that holds its send cipher and has no failure recorded.
C10_NoTickOutsideAuthenticated ==
    [][Ticking => (ws = "open" /\ sendCipher # NoCipher /\ failure = NoFailure)]_vars

\* C11 (as stated): with both ciphers installed, the two nonces add up to the
\* frames sealed plus the frames opened on the connection, and on one connection
\* neither nonce ever decreases.
C11_NonceSumCountsFrames ==
    /\ []((sendCipher # NoCipher /\ recvCipher # NoCipher)
            => sendCipher + recvCipher = sealed + opened)
    /\ [][(connNo' = connNo /\ sendCipher # NoCipher /\ sendCipher' # NoCipher)
            => (sendCipher' >= sendCipher /\ recvCipher' >= recvCipher)]_vars

\* a step in which a handshake completed and installed a cipher pair
InstallingCiphers == serverHelloDeferred /\ Len(loops') = Len(loops) + 1

\* C11 (amended): a completed handshake installs both nonces at 0 without sealing
\* or opening anything; in every other step a nonce that is installed before and
\* after changes by exactly the frames sealed (opened) in that step, which is 0 or
\* 1 (0 for a failed open); and no cipher appears outside a handshake.
C11_NoncePerCipherPair ==
    [][IF InstallingCiphers
       THEN /\ sendCipher' = 0 /\ recvCipher' = 0
            /\ sealed' = sealed /\ opened' = opened
       ELSE /\ sendCipher' # NoCipher =>
                  /\ sendCipher # NoCipher
                  /\ sendCipher' - sendCipher = sealed' - sealed
                  /\ sealed' - sealed \in {0, 1}
            /\ recvCipher' # NoCipher =>
                  /\ recvCipher # NoCipher
                  /\ recvCipher' - recvCipher = opened' - opened
                  /\ opened' - opened \in {0, 1}]_vars

\* C11 witness: a second handshake on a connection that had sealed and opened
\* frames, followed by one more sealed frame.
C11_Witness ==
    /\ Len(loops) = 2
    /\ sendCipher = 1 /\ recvCipher = 0
    /\ sealed = 2 /\ opened = 1

\* a ClientFinish message as written to the websocket, and its payload flags
IsClientFinish(m) == Len(m) = 6 /\ m[4] = CLIENT_FINISH

Passive(m) == m[5] = 1

HasRegData(m) == m[6] = 1

\* the ServerHello that passes every check
ValidServerHello == ServerHelloBytes(NOISE_OK, CERTIFICATE_ISSUER, STATIC_KEY, 0, 0)

\* C12: the ClientFinish that answers a valid ServerHello carries a pairing
\* payload (not passive, regData) exactly when the AuthState has no `me`, and a
\* resume payload (passive, no regData) exactly when it has; and the first
\* ClientFinish of a connection built for a reconnect is a resume payload.
C12_PayloadModeFollowsMe ==
    /\ (ws = "open" /\ serverHelloDeferred /\ ~closeSent /\ authState # "None") =>
           LET w  == onMessage(World, ValidServerHello)
               cf == w.sent[Len(w.sent)]
           IN  /\ Len(w.sent) = Len(sent) + 1
               /\ IsClientFinish(cf)
               /\ Passive(cf) <=> authState = "me"
               /\ HasRegData(cf) <=> authState # "me"
    /\ connNo >= 2 =>
           \A i \in 1..Len(sent) :
               (IsClientFinish(sent[i])
                /\ \A j \in 1..(i - 1) : ~IsClientFinish(sent[j]))
                   => (Passive(sent[i]) /\ ~HasRegData(sent[i]))

\* C12 witness: the connection built after a pairing has sent its ClientFinish
\* in resume mode.
C12_Witness ==
    /\ connNo = 2
    /\ \E i \in 1..Len(sent) : IsClientFinish(sent[i]) /\ Passive(sent[i])

\* the step of clientConnectionLost that reconnects
Reconnecting == ws = "closed" /\ ws' = "connecting"

\* a step in which _restart handed an AuthState to the factory
Restarting ==
    /\ connNo' = connNo
    /\ \E i \in 1..Len(dispatched') : dispatched'[i].tag = "pair-success"
    /\ factoryAuthState' # "None"

\* C13: the factory reconnects on a connection loss only when it holds an
\* AuthState, which only _restart on the current connection puts there; the next
\* protocol built takes that AuthState and the factory forgets it, so a loss
\* without a new _restart leaves the factory disconnected.
C13_ReconnectOnlyAfterRestart ==
    [][/\ Reconnecting => factoryAuthState # "None"
       /\ (factoryAuthState = "None" /\ factoryAuthState' # "None") => Restarting
       /\ connNo' = connNo + 1 =>
              (authState' = factoryAuthState /\ factoryAuthState' = "None")
       /\ (ws = "closed" /\ factoryAuthState = "None") =>
              (ws' # "connecting" /\ connNo' = connNo)]_vars

\* C13 witness: the connection built by the reconnect was lost without a new
\* _restart, and the factory did not connect again.
C13_Witness == connNo = 2 /\ ws = "lost" /\ authState = "me"

\* C14: the ready Deferred is completed at most once.  While it is outstanding,
\* the websocket opening succeeds it, and a failed TCP connection or a close
\* before the opening fails it; once it is completed, no open, close or
\* connection failure changes its outcome.
C14_ReadyCompletedOnce ==
    /\ readyDeferred = "None" <=> readyResult # "unset"
    /\ readyResult # "unset" =>
           /\ onOpen(World).readyResult = readyResult
           /\ onClose(World).readyResult = readyResult
           /\ clientConnectionFailed(World).readyResult = readyResult
    /\ (readyResult = "unset" /\ ws = "handshaking") =>
           /\ onOpen(World).readyResult = "callback"
           /\ onClose(World).readyResult = "errback"
    /\ (readyResult = "unset" /\ ws = "connecting") =>
           clientConnectionFailed(World).readyResult = "errback"
    /\ ws = "open" => readyResult = "callback"
    /\ ws = "failed" => readyResult # "unset"

\* C14 witness: the ready Deferred succeeded on the first connection and the
\* connection built by a reconnect has fired its "close" event since.
C14_Witness ==
    /\ connNo = 2
    /\ ws = "closed"
    /\ CloseCount(events) = 1
    /\ readyResult = "callback"

\* a ServerHello that is valid but for the expiry of its certificate
ServerHelloExpiring(e) ==
    ServerHelloBytes(NOISE_OK, CERTIFICATE_ISSUER, STATIC_KEY, e, 0)

\* C15: while a ServerHello is awaited, a certificate whose expiry is the current
\* time or earlier is rejected with AuthenticationFailedError and installs no
\* cipher; one that expires later is accepted.
C15_ExpiryStrictlyAfterNow ==
    (ws = "open" /\ serverHelloDeferred /\ authState # "None") =>
        /\ \A e \in 1..Now :
               LET w == onMessage(World, ServerHelloExpiring(e))
               IN  /\ w.failure = Failure("AuthenticationFailedError", 4)
                   /\ w.sendCipher = NoCipher
        /\ onMessage(World, ServerHelloExpiring(Now + 1)).sendCipher = 0

\* a ClientHello message as written to the websocket
IsClientHello(m) == IsPrefix(PROLOGUE, m) /\ m[Len(m)] = CLIENT_HELLO

\* which certificate defects a ServerHello has; its expiry is absent, past or future
CertificateDefects ==
    [issuer : BOOLEAN, signature : BOOLEAN, key : BOOLEAN,
     expires : {0, Now - 1, Now + 1}]

DefectiveServerHello(d) ==
    ServerHelloBytes(NOISE_OK,
                     CERTIFICATE_ISSUER + (IF d.issuer THEN 1 ELSE 0),
                     STATIC_KEY + (IF d.key THEN 1 ELSE 0),
                     d.expires,
                     IF d.signature THEN 1 ELSE 0)

\* the check the handshake is expected to stop at (0: none)
FirstDefect(d) ==
    IF d.issuer THEN 1
    ELSE IF d.signature THEN 2
    ELSE IF d.key THEN 3
    ELSE IF d.expires = Now - 1 THEN 4
    ELSE 0

\* C16: a ServerHello with certificate defects raises AuthenticationFailedError at
\* the first failing check (issuer, signature, key, expiry) and then no ClientFinish
\* is written, no cipher pair installed and no keep-alive loop started; without
\* defect all three happen; a message that arrives while no ServerHello is awaited
\* has none of the three effects; and a connection that has a keep-alive loop or a
\* cipher wrote a ClientHello and later a ClientFinish.
C16_EffectsOnlyAfterChecks ==
    /\ (ws = "open" /\ serverHelloDeferred) =>
           \A d \in CertificateDefects :
               LET w == onMessage(World, DefectiveServerHello(d))
               IN  IF FirstDefect(d) # 0
                   THEN /\ w.failure = Failure("AuthenticationFailedError", FirstDefect(d))
                        /\ w.sent = sent
                        /\ w.loops = loops
                        /\ w.keepAliveLoop = keepAliveLoop
                        /\ w.sendCipher = IF authDeferred = "None" THEN sendCipher ELSE NoCipher
                        /\ w.recvCipher = IF authDeferred = "None" THEN recvCipher ELSE NoCipher
                   ELSE authState # "None" =>
                        /\ w.sendCipher = 0 /\ w.recvCipher = 0
                        /\ Len(w.loops) = Len(loops) + 1
                        /\ w.keepAliveLoop = Len(w.loops)
                        /\ ~closeSent =>
                               (Len(w.sent) = Len(sent) + 1 /\ IsClientFinish(w.sent[Len(w.sent)]))
    /\ (ws = "open" /\ ~serverHelloDeferred) =>
           \A d \in CertificateDefects :
               LET w == onMessage(World, DefectiveServerHello(d))
               IN  /\ w.sent = sent
                   /\ w.loops = loops
                   /\ w.sendCipher \in {sendCipher, NoCipher}
    /\ (Len(loops) > 0 \/ sendCipher # NoCipher \/ recvCipher # NoCipher) =>
           \E i, j \in 1..Len(sent) :
               i < j /\ IsClientHello(sent[i]) /\ IsClientFinish(sent[j])

\* C16 witness: a ServerHello with a bad signature was received after the
\* ClientHello; nothing but the ClientHello was written and nothing installed.
C16_Witness ==
    /\ failure = Failure("AuthenticationFailedError", 2)
    /\ Len(sent) = 1 /\ IsClientHello(sent[1])
    /\ sendCipher = NoCipher /\ recvCipher = NoCipher
    /\ loops = << >>

\* a frame sealed for the current receive nonce whose last byte did not arrive
TruncatedMessage ==
    Truncated(SealedFrame(recvCipher, <<0>> \o WABinaryWriter(Node("iq", 1, 0))))

\* C17: a frame whose declared length exceeds the bytes that remain fails with
\* MalformedFrame; its bytes are not handed to the receive cipher (no InvalidTag
\* from it, no frame counted as opened) and no node is dispatched.
C17_TruncatedFrameIsMalformed ==
    ReceivingFrames =>
        LET w == onMessage(World, TruncatedMessage)
        IN  /\ decodeInt(Slice(TruncatedMessage, 0, 3), 3) > Len(TruncatedMessage) - 3
            /\ w.failure.type = "MalformedFrame"
            /\ w.opened = opened
            /\ w.dispatched = << >>

\* C18: a frame that fails to open records the failure and makes the client send
\* the close, and while that failure is recorded no further frame of the
\* connection is opened or dispatched.
C18_FailedOpenIsFatal ==
    /\ []((ws = "open" /\ failure.type = "InvalidTag") => closeSent)
    /\ [][(connNo' = connNo /\ failure.type = "InvalidTag")
            => (opened' = opened /\ ~Dispatching)]_vars

\* C19: on a connection past its handshake, a failure raised by a node handler is
\* recorded only together with the client's close of the websocket.
C19_HandlerFailureClosesConnection ==
    (ws = "open" /\ Len(loops) > 0
     /\ failure.type \in {"NameError", "NodeStreamError"}) => closeSent

\* C20: whenever onClose fires the "close" event, the event carries: a clean
\* close, not logged out, when no failure is recorded; isLoggedOut for a
\* NodeStreamError with code 401 and not for any other code; not isAuthDone for an
\* AuthenticationFailedError.
C20_CloseCauseMapping ==
    ws \in {"handshaking", "open"} =>
        LET w == onClose(World)
        IN  Len(w.events) > Len(events) =>
                LET ev == w.events[Len(w.events)]
                IN  /\ ev.name = "close"
                    /\ failure = NoFailure =>
                           (~ev.isLoggedOut /\ ev.isAuthDone
                            /\ ev.reason = "Connection Closed Cleanly")
                    /\ (failure.type = "NodeStreamError" /\ failure.arg = 401) =>
                           ev.isLoggedOut
                    /\ (failure.type = "NodeStreamError" /\ failure.arg # 401) =>
                           ~ev.isLoggedOut
                    /\ failure.type = "AuthenticationFailedError" => ~ev.isAuthDone

\* C20 witness: a connection closed with NodeStreamError(401) recorded has fired
\* "close" with isLoggedOut.
C20_Witness ==
    /\ ws = "closed"
    /\ Len(events) > 0
    /\ events[Len(events)].name = "close"
    /\ events[Len(events)].isLoggedOut

\* a handshake is in flight: the ClientHello is written, the ServerHello awaited
HandshakeInFlight == ws = "open" /\ ~closeSent /\ serverHelloDeferred

\* C21: while a handshake is in flight, neither sendMessageNode nor request nor a
\* keep-alive ping writes anything to the websocket, also when the connection
\* already holds a cipher pair from an earlier handshake.
C21_NoSendDuringHandshake ==
    HandshakeInFlight =>
        /\ \A node \in OutNodes : sendMessageNode(World, node).w.sent = sent
        /\ \A id \in RequestIds : request(World, Node("iq", id, 0)).w.sent = sent
        /\ \A k \in 1..Len(loops) : \A random \in Prefixes :
               loops[k] = "scheduled" => loop(World, k, random).sent = sent

\* the Deferreds that request() returned and that have not fired yet
Outstanding(w) ==
    {d \in 1..Len(w.deferreds) :
        w.deferreds[d].returned /\ w.deferreds[d].state = "pending"}

\* C22: no two outstanding request Deferreds have the same node id; request() for
\* an id whose Deferred is outstanding leaves that slot of the pending table as
\* it is; and the id that _generateMessageId produces next differs from the id of
\* every outstanding request.
C22_OneOutstandingPerId ==
    /\ \A d1, d2 \in Outstanding(World) :
           deferreds[d1].id = deferreds[d2].id => d1 = d2
    /\ ws = "open" =>
           \A d \in Outstanding(World) :
               LET id == deferreds[d].id
               IN  pendingRequest[id] = d =>
                       request(World, Node("iq", id, 0)).w.pendingRequest[id] = d
    /\ \A random \in Prefixes : \A d \in Outstanding(World) :
           _generateMessageId(World, random).id # deferreds[d].id

\* failures that reach _handleFailure
FailureValues ==
    {Failure("InvalidTag", 0), Failure("NodeStreamError", 401),
     Failure("AuthenticationFailedError", 1)}

\* a websocket message of one frame holding a stream:error node with this code
StreamErrorMessage(code) ==
    MessageBytes(<<[kind |-> "node", node |-> Node("stream:error", 0, code)]>>,
                 recvCipher)

\* a websocket message of two frames, each holding a stream:error node
TwoStreamErrorsMessage(code1, code2) ==
    MessageBytes(<<[kind |-> "node", node |-> Node("stream:error", 0, code1)],
                   [kind |-> "node", node |-> Node("stream:error", 0, code2)]>>,
                 recvCipher)

\* what onClose does with the failure f on the state w it is called in: f goes to
\* the auth Deferred if that is outstanding, else the "close" event is derived
\* from f; either way no failure stays recorded
ClosedWith(w, f) ==
    LET c == onClose(w)
    IN  /\ c.failure = NoFailure
        /\ IF w.authDeferred = "pending"
           THEN c.authResult = f.type /\ c.events = w.events
           ELSE /\ Len(c.events) = Len(w.events) + 1
                /\ c.events[Len(c.events)].isLoggedOut
                       <=> f = Failure("NodeStreamError", 401)
                /\ c.events[Len(c.events)].isAuthDone
                       <=> f.type # "AuthenticationFailedError"

\* C23: whatever failure is recorded already, _handleFailure records the failure
\* it is called with, so of several calls the last one stays; onClose acts on that
\* last failure alone and leaves no failure recorded.  The same holds for the
\* failures that inbound frames raise on a connection that has one recorded.
C23_LastFailureWins ==
    /\ \A f1, f2 \in FailureValues : \A d1, d2 \in BOOLEAN :
           LET w1 == _handleFailure(World, f1, d1)
               w2 == _handleFailure(w1, f2, d2)
           IN  /\ w1.failure = f1
               /\ w2.failure = f2
               /\ ws \in {"handshaking", "open"} => ClosedWith(w2, f2)
    /\ ReceivingFrames =>
           /\ onMessage(World, MessageBytes(<<[kind |-> "corrupt", node |-> Node("iq", 1, 0)]>>,
                                            recvCipher)).failure
                  = Failure("InvalidTag", 0)
           /\ \A code \in {401, 500} :
                  LET w == onMessage(World, StreamErrorMessage(code))
                  IN  /\ w.failure = Failure("NodeStreamError", code)
                      /\ ClosedWith(w, Failure("NodeStreamError", code))
           /\ authDeferred = "None" =>
                  \A code1, code2 \in {401, 500} :
                      LET w == onMessage(World, TwoStreamErrorsMessage(code1, code2))
                      IN  /\ w.failure = Failure("NodeStreamError", code2)
                          /\ ClosedWith(w, Failure("NodeStreamError", code2))
    /\ ws = "closed" => failure = NoFailure

\* C23 witness: a frame failed to open (the only failure that makes the client
\* send the close), a repeated handshake then failed on its certificate, and the
\* "close" event of the connection reports the failed authentication alone.
C23_Witness ==
    /\ ws = "closed"
    /\ closeSent
    /\ failure = NoFailure
    /\ Len(events) > 0
    /\ events[Len(events)].reason = "Authentication Failed"

\* C24: a request() that raises for want of a send cipher leaves the pending
\* table as it was, with no slot for the node's id.
C24_RaisedRequestLeavesNoSlot ==
    (ws = "open" /\ sendCipher = NoCipher) =>
        \A id \in RequestIds :
            LET r == request(World, Node("iq", id, 0))
            IN  r.exc # NoFailure =>
                    /\ r.w.pendingRequest = pendingRequest
                    /\ id \notin DOMAIN pendingRequest => id \notin DOMAIN r.w.pendingRequest

\* websocket messages that can arrive while nothing is awaited and no receive
\* cipher is installed: an empty one, a ServerHello, sealed frames, a frame that
\* would not open and a truncated one
UnkeyedMessages ==
    {<< >>, ServerHelloBytes(NOISE_OK, CERTIFICATE_ISSUER, STATIC_KEY, 0, 0),
     MessageBytes(<<[kind |-> "node", node |-> Node("success", 0, 0)]>>, 0),
     MessageBytes(<<[kind |-> "node", node |-> Node("stream:error", 0, 401)]>>, 0),
     MessageBytes(<<[kind |-> "corrupt", node |-> Node("iq", 1, 0)]>>, 0),
     MessageBytes(<<[kind |-> "truncated", node |-> Node("iq", 1, 0)]>>, 0)}
    \cup {MessageBytes(cs, 0) : cs \in TrailingSeqs}

====
